---- MODULE Spec2Model ----
(***************************************************************************)
(* db-plumbing-map: the in-memory Store wrapping an ES6 Map.               *)
(*                                                                         *)
(* The Store of src/unnamed/part_000 (and its older twin src/store.js) is  *)
(* modelled as a state machine: idMap is the Map (its entries in insertion *)
(* order), sorted the SortedFlag, key the key extractor handed to the      *)
(* constructor.  Every synchronous method body is one action.  removeAll   *)
(* is two: the call, which evaluates findAll, and the .then callback that  *)
(* deletes.  last is the call that returned most recently, with its        *)
(* argument and the value its promise settled to, until the client's       *)
(* continuation has consumed it (Deliver).                                 *)
(***************************************************************************)
EXTENDS Integers, Sequences, FiniteSets, TLC

\* Numeric keys are 1..MaxKey.
MaxKey == 2

\* A patch describes at most MaxPatch operations.
MaxPatch == 2

\* Largest number of mutating calls made while a stream of all() is unconsumed.
MaxStreamOps == 1

\* The JavaScript value undefined, where a key is expected: the uid of an
\* object that has no uid attribute.
Undef == 0

\* The values of the attribute a of the stored objects.
Payloads == {"x", "y"}

\* The parameter of the query "a equals parameter"; "z" matches no object.
Parameters == Payloads \cup {"z"}

NumKeys == 1..MaxKey

MapKeys == NumKeys \cup {Undef}

\* What Map.get returns for a key the Map does not hold.
Undefined == [uid |-> Undef, key |-> Undef, a |-> "undefined"]

\* Objects that carry their key in uid, and objects that carry it in key
\* (the README's { key: 1, a: "hello" }), which have no uid.
UidObjects == {[uid |-> k, key |-> Undef, a |-> p] : k \in NumKeys, p \in Payloads}

KeyObjects == {[uid |-> Undef, key |-> k, a |-> p] : k \in NumKeys, p \in Payloads}

VARIABLES idMap, sorted, key, last, queued, stream

vars == <<idMap, sorted, key, last, queued, stream>>

\* constructor(type, key = e=>e.uid, ...): this.key, applied to an object.
KeyOf(v) == IF key = "uid" THEN v.uid ELSE v.key

\* The element type of the store: the objects its key extractor gives a key.
Objects == IF key = "uid" THEN UidObjects ELSE KeyObjects

----------------------------------------------------------------------------
\* ES6 Map, as the sequence of its entries <<k, v>> in insertion order.

MapHas(m, k) == \E i \in 1..Len(m) : m[i][1] = k

MapGet(m, k) ==
    IF MapHas(m, k) THEN m[CHOOSE i \in 1..Len(m) : m[i][1] = k][2] ELSE Undefined

\* set keeps the position of a key the Map holds, and appends a new one.
MapSet(m, k, v) ==
    IF MapHas(m, k)
    THEN [i \in 1..Len(m) |-> IF m[i][1] = k THEN <<k, v>> ELSE m[i]]
    ELSE Append(m, <<k, v>>)

IsNotKey(e, k) == e[1] # k

MapDelete(m, k) ==
    LET Keep(e) == IsNotKey(e, k) IN SelectSeq(m, Keep)

MapKeySet(m) == {m[i][1] : i \in 1..Len(m)}

\* Array.from(this.idMap.values())
MapValues(m) == [i \in 1..Len(m) |-> m[i][2]]

----------------------------------------------------------------------------
\* Promises and errors.

Resolved(x) == [state |-> "resolved", value |-> x]

Rejected(e) == [state |-> "rejected", value |-> e]

\* An exception that leaves the method before it has made its promise.
Thrown(e) == [state |-> "thrown", value |-> e]

\* class DoesNotExist: carries the key.
DoesNotExist(k) == [name |-> "DoesNotExist", key |-> k]

----------------------------------------------------------------------------
\* Queries and patches: the two collaborators the Store calls.

\* query.bind(parameters).predicate (index(value, item) in store.js), for
\* the query "a equals parameter".
Predicate(p, v) == v.a = p

\* The operations of a patch: put (add or update) an object under its key,
\* delete a key, and a malformed operation the engine rejects.
PutRows == {[op |-> "put", key |-> KeyOf(v), value |-> v] : v \in Objects}

DelRows == {[op |-> "del", key |-> k, value |-> Undefined] : k \in NumKeys}

BadRows == {[op |-> "bad", key |-> Undef, value |-> Undefined]}

Rows == PutRows \cup DelRows \cup BadRows

\* patch.data of every patch of at most MaxPatch operations.
PatchData == UNION {[1..n -> Rows] : n \in 0..MaxPatch}

\* function defaultComparator(key, a, b)
defaultComparator(a, b) ==
    IF KeyOf(a) < KeyOf(b) THEN -1
    ELSE IF KeyOf(a) > KeyOf(b) THEN 1
    ELSE 0

RECURSIVE InsertEntry(_, _)
InsertEntry(s, e) ==
    IF s = <<>> THEN <<e>>
    ELSE IF defaultComparator(Head(s)[2], e[2]) <= 0
         THEN <<Head(s)>> \o InsertEntry(Tail(s), e)
         ELSE <<e>> \o s

RECURSIVE SortEntries(_, _)
SortEntries(acc, s) ==
    IF s = <<>> THEN acc ELSE SortEntries(InsertEntry(acc, Head(s)), Tail(s))

ApplyRow(m, r) ==
    IF r.op = "put" THEN MapSet(m, r.key, r.value) ELSE MapDelete(m, r.key)

RECURSIVE ApplyRows(_, _)
ApplyRows(m, data) ==
    IF data = <<>> THEN m ELSE ApplyRows(ApplyRow(m, Head(data)), Tail(data))

\* patch.patch(map, { value, collectionElementType, sorted }): a new
\* collection holding every operation of the patch, in comparator order; a
\* structural error, and the map untouched, when an operation is malformed.
PatchEngine(m, data, hint) ==
    IF \E i \in 1..Len(data) : data[i].op = "bad"
    THEN [ok |-> FALSE, map |-> m, error |-> [name |-> "StructuralPatchError", key |-> Undef]]
    ELSE [ok |-> TRUE, map |-> SortEntries(<<>>, ApplyRows(m, data)),
          error |-> [name |-> "", key |-> Undef]]

----------------------------------------------------------------------------
\* The methods of Store, as functions of the state they read.

FindResultNull(m, k) == Resolved(MapGet(m, k))

\* find(key)
FindResult(m, k) ==
    LET val == MapGet(m, k)
    IN  IF val = Undefined THEN Rejected(DoesNotExist(k)) ELSE Resolved(val)

\* get all()
AllResult(m) == MapValues(m)

\* AsyncStream.from(this.idMap).map(([k,v]) => v): a lazy stream over the
\* Map's iterator. Nothing is read when it is made; atCall is kept only to
\* say what the Map held then, source is what the Map object holds once
\* this.idMap has been reassigned away from it.
NoStream == [open |-> FALSE, live |-> FALSE, ops |-> 0, atCall |-> <<>>, source |-> <<>>]

StreamFrom(m) ==
    [open |-> TRUE, live |-> TRUE, ops |-> 0, atCall |-> MapValues(m), source |-> <<>>]

\* Consuming the stream walks the Map object it was made from, as that
\* object is then.
StreamYield(st, m) == IF st.live THEN MapValues(m) ELSE st.source

\* A mutating call finds room while fewer than MaxStreamOps of them were made
\* on an unconsumed stream.
StreamRoom(st) == ~st.open \/ st.ops < MaxStreamOps

\* A write into the Map object the stream iterates.
StreamWritten(st) == IF st.open THEN [st EXCEPT !.ops = @ + 1] ELSE st

\* this.idMap = ...: the stream keeps the Map object it was made from.
StreamDetached(st, m) ==
    IF st.open /\ st.live
    THEN [st EXCEPT !.ops = @ + 1, !.live = FALSE, !.source = MapValues(m)]
    ELSE StreamWritten(st)

\* findAll(query, parameters)
FindAllResult(m, p) ==
    LET Test(v) == Predicate(p, v) IN SelectSeq(AllResult(m), Test)

UpdateSortedKeep(m, s, object) == s

\* update(object): the key is read from object.uid, whatever this.key is.
UpdateSorted(m, s, object) == IF ~MapHas(m, object.uid) THEN FALSE ELSE s

UpdateMapAppend(m, object) == Append(m, <<object.uid, object>>)

UpdateMap(m, object) == MapSet(m, object.uid, object)

\* !x for x an object or undefined.
JsNot(x) == x = Undefined

\* b === undefined for a boolean b: a boolean is never undefined.
BooleanIsUndefined(b) == FALSE

\* remove(key): the test (! this.idMap.get(key) === undefined) parses as
\* (!this.idMap.get(key)) === undefined.
RemoveTest(m, k) == BooleanIsUndefined(JsNot(MapGet(m, k)))

RemoveMap(m, k) == IF RemoveTest(m, k) THEN MapDelete(m, k) ELSE m

RemoveResult(m, k) == IF RemoveTest(m, k) THEN TRUE ELSE FALSE

\* removeAll's callback: for (let item in items) enumerates the indices of
\* the array, as strings; item.uid is the uid of a string: undefined.
ItemUid(items, i) == Undef

RECURSIVE DeleteItems(_, _, _)
DeleteItems(m, items, i) ==
    IF i > Len(items) THEN m
    ELSE DeleteItems(MapDelete(m, ItemUid(items, i)), items, i + 1)

RemoveAllMap(m, items) == IF Len(items) = 0 THEN m ELSE DeleteItems(m, items, 1)

RemoveAllResultTrue(m, items) == TRUE

RemoveAllResult(m, items) == IF Len(items) = 0 THEN FALSE ELSE TRUE

----------------------------------------------------------------------------
\* The state machine.

\* A call keeps, with its argument and the value it settled to, the state
\* it found: for bulk, the collection and the sorted flag it handed to the
\* engine.
NoCall ==
    [op |-> "none", arg |-> Undef, ret |-> Resolved(Undef),
     before |-> [idMap |-> <<>>, sorted |-> TRUE]]

NoJob == [active |-> FALSE, parameters |-> "", items |-> <<>>]

Call(op, arg, ret) ==
    [op |-> op, arg |-> arg, ret |-> ret, before |-> [idMap |-> idMap, sorted |-> sorted]]

Idle == last.op = "none"

Init ==
    /\ idMap = <<>>
    /\ sorted = TRUE
    /\ key \in {"uid", "key"}
    /\ last = NoCall
    /\ queued = NoJob
    /\ stream = NoStream

Find(k) ==
    /\ Idle
    /\ last' = Call("find", k, FindResult(idMap, k))
    /\ UNCHANGED <<idMap, sorted, key, queued, stream>>

\* get all(): the stream is made and returned, nothing is read yet.
All ==
    /\ Idle
    /\ ~stream.open
    /\ stream' = StreamFrom(idMap)
    /\ last' = Call("all", Undef, Resolved(Undef))
    /\ UNCHANGED <<idMap, sorted, key, queued>>

\* The caller consumes the stream that all() returned.
Consume ==
    /\ Idle
    /\ stream.open
    /\ last' = Call("consume", stream.atCall, Resolved(StreamYield(stream, idMap)))
    /\ stream' = NoStream
    /\ UNCHANGED <<idMap, sorted, key, queued>>

FindAll(p) ==
    /\ Idle
    /\ last' = Call("findAll", p, Resolved(FindAllResult(idMap, p)))
    /\ UNCHANGED <<idMap, sorted, key, queued, stream>>

Update(object) ==
    /\ Idle
    /\ StreamRoom(stream)
    /\ sorted' = UpdateSorted(idMap, sorted, object)
    /\ idMap' = UpdateMap(idMap, object)
    /\ stream' = StreamWritten(stream)
    /\ last' = Call("update", object, Resolved(TRUE))
    /\ UNCHANGED <<key, queued>>

Remove(k) ==
    /\ Idle
    /\ RemoveTest(idMap, k) => StreamRoom(stream)
    /\ idMap' = RemoveMap(idMap, k)
    /\ stream' = IF RemoveTest(idMap, k) THEN StreamWritten(stream) ELSE stream
    /\ last' = Call("remove", k, Resolved(RemoveResult(idMap, k)))
    /\ UNCHANGED <<sorted, key, queued>>

RemoveAllEager(p) ==
    /\ Idle
    /\ ~queued.active
    /\ idMap' = RemoveAllMap(idMap, FindAllResult(idMap, p))
    /\ queued' = [active |-> TRUE, parameters |-> p, items |-> FindAllResult(idMap, p)]
    /\ UNCHANGED <<sorted, key, last, stream>>

\* removeAll(query, parameters), up to the .then: findAll is evaluated and
\* the callback is queued.
RemoveAll(p) ==
    /\ Idle
    /\ ~queued.active
    /\ queued' = [active |-> TRUE, parameters |-> p, items |-> FindAllResult(idMap, p)]
    /\ UNCHANGED <<idMap, sorted, key, last, stream>>

RemoveAllThenClears ==
    /\ Idle
    /\ queued.active
    /\ Len(queued.items) > 0 => StreamRoom(stream)
    /\ idMap' = RemoveAllMap(idMap, queued.items)
    /\ sorted' = IF Len(queued.items) > 0 THEN FALSE ELSE sorted
    /\ stream' = IF Len(queued.items) > 0 THEN StreamWritten(stream) ELSE stream
    /\ last' = Call("removeAll", queued.parameters,
                    Resolved(RemoveAllResult(idMap, queued.items)))
    /\ queued' = NoJob
    /\ UNCHANGED key

\* items => { ... }: the callback of removeAll.
RemoveAllThen ==
    /\ Idle
    /\ queued.active
    /\ Len(queued.items) > 0 => StreamRoom(stream)
    /\ idMap' = RemoveAllMap(idMap, queued.items)
    /\ stream' = IF Len(queued.items) > 0 THEN StreamWritten(stream) ELSE stream
    /\ last' = Call("removeAll", queued.parameters,
                    Resolved(RemoveAllResult(idMap, queued.items)))
    /\ queued' = NoJob
    /\ UNCHANGED <<sorted, key>>

BulkReturnKeys(data) == Cardinality({data[i].key : i \in 1..Len(data)})

\* patch.data.length
BulkReturn(data) == Len(data)

BulkFlagFirst(data) ==
    LET out == PatchEngine(idMap, data, sorted)
    IN  /\ Idle
        /\ sorted' = TRUE
        /\ IF out.ok
           THEN /\ StreamRoom(stream)
                /\ idMap' = out.map
                /\ stream' = StreamDetached(stream, idMap)
                /\ last' = Call("bulk", data, Resolved(BulkReturn(data)))
           ELSE /\ UNCHANGED <<idMap, stream>>
                /\ last' = Call("bulk", data, Thrown(out.error))
        /\ UNCHANGED <<key, queued>>

BulkInPlace(data) ==
    LET out == PatchEngine(idMap, data, sorted)
    IN  /\ Idle
        /\ IF out.ok
           THEN /\ UNCHANGED <<idMap, stream>>
                /\ sorted' = TRUE
                /\ last' = Call("bulk", data, Resolved(BulkReturn(data)))
           ELSE /\ UNCHANGED <<idMap, sorted, stream>>
                /\ last' = Call("bulk", data, Thrown(out.error))
        /\ UNCHANGED <<key, queued>>

\* bulk(patch): nothing is assigned when patch.patch throws.
Bulk(data) ==
    LET out == PatchEngine(idMap, data, sorted)
    IN  /\ Idle
        /\ IF out.ok
           THEN /\ StreamRoom(stream)
                /\ idMap' = out.map
                /\ stream' = StreamDetached(stream, idMap)
                /\ sorted' = TRUE
                /\ last' = Call("bulk", data, Resolved(BulkReturn(data)))
           ELSE /\ UNCHANGED <<idMap, sorted, stream>>
                /\ last' = Call("bulk", data, Thrown(out.error))
        /\ UNCHANGED <<key, queued>>

\* The client's continuation takes the settled value.
Deliver ==
    /\ ~Idle
    /\ last' = NoCall
    /\ UNCHANGED <<idMap, sorted, key, queued, stream>>

Next ==
    \/ \E k \in MapKeys : Find(k)
    \/ All
    \/ Consume
    \/ \E p \in Parameters : FindAll(p)
    \/ \E object \in Objects : Update(object)
    \/ \E k \in MapKeys : Remove(k)
    \/ \E p \in Parameters : RemoveAll(p)
    \/ RemoveAllThen
    \/ \E data \in PatchData : Bulk(data)
    \/ Deliver

Spec == Init /\ [][Next]_vars

----------------------------------------------------------------------------
\* Properties.  While a call is in last, the state is the one the call left
\* and last.before the one it found.

Entries(m) == {m[i] : i \in 1..Len(m)}

Holds(m, k) == \E e \in Entries(m) : e[1] = k

\* The value m holds under k, as a set: empty when m holds none.
ValuesAt(m, k) == {e[2] : e \in {f \in Entries(m) : f[1] = k}}

Returned(op) == last.op = op /\ last.ret.state = "resolved"

\* C1: after update(v), find(keyOf(v)) resolves to v, for the default key
\* extractor and for a caller-supplied one, and goes on resolving to v
\* until a remove, removeAll or bulk deletes the key or an update
\* overwrites it.
C1_FindAfterUpdate ==
    [][ /\ last'.op = "update" =>
            FindResult(idMap', KeyOf(last'.arg)) = Resolved(last'.arg)
        /\ \A v \in Objects :
            FindResult(idMap, KeyOf(v)) = Resolved(v) =>
                \/ FindResult(idMap', KeyOf(v)) = Resolved(v)
                \/ last'.op \in {"remove", "removeAll", "bulk"}
                \/ last'.op = "update" /\ KeyOf(last'.arg) = KeyOf(v)
      ]_vars

\* C2: remove(k) returns true if and only if k was present immediately
\* before the call, and a second remove(k) issued right after the first
\* returns false.  Stated for the store with the default key extractor.
C2_RemoveReturnsPresence ==
    (key = "uid" /\ last.op = "remove") =>
        /\ last.ret.state = "resolved"
        /\ last.ret.value = Holds(last.before.idMap, last.arg)
        /\ RemoveResult(idMap, last.arg) = FALSE

\* C3: after remove(k) on a Collection containing k, k is no longer in the
\* Collection (find(k) fails with NotFound) and every other key keeps the
\* value it had.  Stated for the store with the default key extractor.
C3_RemoveDeletes ==
    (key = "uid" /\ last.op = "remove" /\ Holds(last.before.idMap, last.arg)) =>
        /\ ~Holds(idMap, last.arg)
        /\ FindResult(idMap, last.arg) = Rejected(DoesNotExist(last.arg))
        /\ \A k \in MapKeys \ {last.arg} :
               ValuesAt(idMap, k) = ValuesAt(last.before.idMap, k)

\* C4: find(k) returns the stored value when k is in the Collection; when k
\* is absent it fails with a DoesNotExist error that carries k, never with
\* an empty or null result.
C4_FindOrDoesNotExist ==
    last.op = "find" =>
        IF Holds(idMap, last.arg)
        THEN /\ last.ret.state = "resolved"
             /\ ValuesAt(idMap, last.arg) = {last.ret.value}
        ELSE /\ last.ret.state = "rejected"
             /\ last.ret.value.name = "DoesNotExist"
             /\ last.ret.value.key = last.arg

\* find(2) has failed on a store that holds key 1.
C4_Witness ==
    /\ last.op = "find"
    /\ last.ret.state = "rejected"
    /\ last.ret.value.key = 2
    /\ Holds(idMap, 1)

C5_WitnessUpdate ==
    /\ last.op = "update"
    /\ last.before.sorted = TRUE
    /\ Len(last.before.idMap) = 1
    /\ Len(idMap) = 2
    /\ sorted = FALSE

C6_BulkAllOrNothing ==
    (last.op = "bulk" /\ \E i \in 1..Len(last.arg) : last.arg[i].op = "bad") =>
        /\ last.ret.state = "thrown"
        /\ last.ret.value.name = "StructuralPatchError"
        /\ idMap = last.before.idMap
        /\ sorted = last.before.sorted

\* A bulk has failed on its second operation, after a first one that puts a
\* key the store does not hold, on a store whose flag is false.
C6_Witness ==
    /\ last.op = "bulk"
    /\ last.ret.state = "thrown"
    /\ Len(last.arg) = 2
    /\ last.arg[1].op = "put"
    /\ last.arg[2].op = "bad"
    /\ ~Holds(last.before.idMap, last.arg[1].key)
    /\ last.before.idMap # <<>>
    /\ last.before.sorted = FALSE

\* The operation of data that decides key k: the last one that names it.
LastRowFor(data, k) ==
    LET at == {i \in 1..Len(data) : data[i].key = k}
    IN  data[CHOOSE i \in at : \A j \in at : j <= i]

\* C7: after a successful bulk(patch) the Collection is exactly what the
\* engine returns for the pre-call Collection and the patch's operations:
\* a key the patch names holds what its last operation says, any other key
\* holds what it held, and nothing of the old Collection is left beside it;
\* SortedFlag is true and the call returns the number of operations.
C7_BulkReplacesCollection ==
    Returned("bulk") =>
        /\ \A k \in MapKeys :
            IF \E i \in 1..Len(last.arg) : last.arg[i].key = k
            THEN LET r == LastRowFor(last.arg, k)
                 IN  ValuesAt(idMap, k) = IF r.op = "put" THEN {r.value} ELSE {}
            ELSE ValuesAt(idMap, k) = ValuesAt(last.before.idMap, k)
        /\ Len(idMap) = Cardinality(MapKeySet(idMap))
        /\ idMap = PatchEngine(last.before.idMap, last.arg, last.before.sorted).map
        /\ sorted = TRUE
        /\ last.ret.value = Len(last.arg)

\* On a store with keys {1, 2}, a patch adding the key the store lacks and
\* removing key 1 has left two keys, key 1 not among them, the flag true and
\* the return value 2.
C7_Witness ==
    /\ last.op = "bulk"
    /\ last.ret.state = "resolved"
    /\ last.ret.value = 2
    /\ Cardinality(MapKeySet(last.before.idMap)) = 2
    /\ Holds(last.before.idMap, 1)
    /\ last.arg[1].op = "put" /\ ~Holds(last.before.idMap, last.arg[1].key)
    /\ last.arg[2].op = "del" /\ last.arg[2].key = 1
    /\ Cardinality(MapKeySet(idMap)) = 2
    /\ ~Holds(idMap, 1)
    /\ sorted = TRUE

\* C8: the value a successful bulk(patch) returns is the number of
\* operations the patch describes, whether or not they changed the
\* Collection.
C8_BulkReturnsCount ==
    Returned("bulk") => last.ret.value = Len(last.arg)

\* A patch that describes twice an operation that changes nothing has
\* returned 2.
C8_Witness ==
    /\ last.op = "bulk"
    /\ last.ret.state = "resolved"
    /\ Len(last.arg) = 2
    /\ last.arg[1] = last.arg[2]
    /\ Entries(idMap) = Entries(last.before.idMap)
    /\ idMap # <<>>
    /\ last.ret.value = 2

\* The stored values the query of the removeAll in last matches.
Matched == {e \in Entries(last.before.idMap) : Predicate(last.arg, e[2])}

\* C9: removeAll removes every stored value the predicate matches, each
\* under its own extracted key, leaves every other value in place, and
\* returns true if and only if at least one value was removed.  Stated for
\* the store with the default key extractor.
C9_RemoveAllRemovesMatches ==
    (key = "uid" /\ last.op = "removeAll") =>
        /\ \A e \in Matched : ~Holds(idMap, e[1])
        /\ \A e \in Entries(last.before.idMap) \ Matched : e \in Entries(idMap)
        /\ last.ret.state = "resolved"
        /\ last.ret.value = (Entries(idMap) # Entries(last.before.idMap))

NoMatch(m, p) == \A e \in Entries(m) : e[2].a # p

\* C10: with a predicate that matches no stored value findAll yields an
\* empty sequence and removeAll yields false; neither raises an error and
\* the Collection and SortedFlag are unchanged.
C10_NoMatchIsNoError ==
    [][ /\ (last'.op = "findAll" /\ NoMatch(idMap, last'.arg)) =>
            /\ last'.ret = Resolved(<<>>)
            /\ idMap' = idMap /\ sorted' = sorted
        /\ (queued'.active /\ ~queued.active /\ NoMatch(idMap, queued'.parameters)) =>
            /\ queued'.items = <<>>
            /\ idMap' = idMap /\ sorted' = sorted
        /\ (last'.op = "removeAll" /\ queued.items = <<>>) =>
            /\ last'.ret = Resolved(FALSE)
            /\ idMap' = idMap /\ sorted' = sorted
      ]_vars

\* A removeAll whose query matched nothing in a store that holds two
\* objects has resolved to false.
C10_Witness ==
    /\ last.op = "removeAll"
    /\ last.arg = "z"
    /\ last.ret = Resolved(FALSE)
    /\ Len(idMap) >= 2

\* C1 for the default key extractor alone.
C1_DefaultExtractor ==
    [][ key = "uid" =>
        /\ last'.op = "update" =>
            FindResult(idMap', KeyOf(last'.arg)) = Resolved(last'.arg)
        /\ \A v \in Objects :
            FindResult(idMap, KeyOf(v)) = Resolved(v) =>
                \/ FindResult(idMap', KeyOf(v)) = Resolved(v)
                \/ last'.op \in {"remove", "removeAll", "bulk"}
                \/ last'.op = "update" /\ KeyOf(last'.arg) = KeyOf(v)
      ]_vars

\* What C11 says of the update in last, once its key was present.
UpdateReplaced ==
    LET k == KeyOf(last.arg)
    IN  /\ FindResult(idMap, k) = Resolved(last.arg)
        /\ Len(idMap) = Len(last.before.idMap)
        /\ Len(idMap) = Cardinality(MapKeySet(idMap))
        /\ sorted = last.before.sorted
        /\ \A j \in MapKeys \ {k} : ValuesAt(idMap, j) = ValuesAt(last.before.idMap, j)

\* C11: update(v) when keyOf(v) is already present replaces the value
\* stored under that key (find then returns v), adds no second entry,
\* leaves SortedFlag as it was and leaves every other key's value unchanged.
C11_UpdateReplaces ==
    (last.op = "update" /\ Holds(last.before.idMap, KeyOf(last.arg))) => UpdateReplaced

\* C11 for the default key extractor alone.
C11_DefaultExtractor ==
    (key = "uid" /\ last.op = "update" /\ Holds(last.before.idMap, KeyOf(last.arg))) =>
        UpdateReplaced

\* The iteration order of m is monotonic under the Store's comparator.
Monotonic(m) ==
    \A i \in 1..Len(m) : \A j \in 1..Len(m) :
        i < j => defaultComparator(m[i][2], m[j][2]) <= 0

\* C12: in every reachable state, the patch engine returning a sorted
\* collection, sorted = true implies that the Collection's iteration order is
\* monotonic under the Store's comparator; hence bulk never passes
\* sorted = true to the patch engine for an unsorted Collection.
C12_HonestSortedHint ==
    /\ sorted => Monotonic(idMap)
    /\ (last.op = "bulk" /\ last.before.sorted) => Monotonic(last.before.idMap)

\* C12 for the default key extractor alone.
C12_DefaultExtractor ==
    key = "uid" => C12_HonestSortedHint

C14_AllIsSnapshot ==
    last.op = "consume" => last.ret.value = last.arg

\* C15: update is idempotent and never fails: in the state that update(v)
\* leaves, update(v) once more leaves the same Collection and the same
\* SortedFlag, and the calls resolve to true; an update(v) that finds v
\* stored as update(v) leaves it changes neither.
C15_UpdateIdempotent ==
    last.op = "update" =>
        /\ last.ret = Resolved(TRUE)
        /\ UpdateMap(idMap, last.arg) = idMap
        /\ UpdateSorted(idMap, sorted, last.arg) = sorted
        /\ (/\ MapHas(last.before.idMap, last.arg.uid)
            /\ MapGet(last.before.idMap, last.arg.uid) = last.arg) =>
               (idMap = last.before.idMap /\ sorted = last.before.sorted)

\* update(v) repeated on a store whose only entry an update(v) wrote, with
\* the flag it cleared: the second call changed nothing.
C15_Witness ==
    /\ last.op = "update"
    /\ key = "uid"
    /\ idMap = <<<<last.arg.uid, last.arg>>>>
    /\ ~sorted
    /\ last.before.idMap = idMap
    /\ ~last.before.sorted

\* C16: find, all and findAll leave both the Collection and SortedFlag
\* unchanged, and remove and removeAll never change SortedFlag: neither the
\* call of removeAll nor its callback turns the flag on or off.
C16_ReadAndDeleteFrame ==
    [][/\ (Idle /\ last'.op \in {"find", "all", "findAll"}) =>
              (idMap' = idMap /\ sorted' = sorted)
       /\ (Idle /\ last'.op \in {"remove", "removeAll"}) => sorted' = sorted
       /\ (~queued.active /\ queued'.active) => sorted' = sorted]_vars

\* removeAll deleted an entry of a Collection flagged sorted, and the flag
\* is still on.
C16_Witness ==
    /\ last.op = "removeAll"
    /\ Len(idMap) < Len(last.before.idMap)
    /\ last.before.sorted
    /\ sorted
====
